---- MODULE Spec2Model ----
(***************************************************************************)
(* The four functions of samples/algorithms.cpp and                        *)
(* samples/algorithms_clone.cpp: bubbleSort, binarySearch, sortArray and   *)
(* findElement.  A single-threaded caller owns a vector S and runs a       *)
(* script of calls on it; each function is modelled frame by frame, one    *)
(* action per loop test or loop body.  Vectors are functions over          *)
(* 0..size-1, so indices are the indices of the code.  Every `int` is an   *)
(* IntBits-bit two's-complement integer.                                   *)
(***************************************************************************)
EXTENDS Integers, Sequences, FiniteSets, TLC

\* ---------------------------------------------------------------- bounds
MaxLen == 4
MaxVal == 2
IntBits == 4

\* ------------------------------------------------------------------- int
INT_MAX == 2 ^ (IntBits - 1) - 1
INT_MIN == -(2 ^ (IntBits - 1))
IntRange == INT_MIN .. INT_MAX

\* x is representable in an int
InInt(x) == INT_MIN <= x /\ x <= INT_MAX

\* conversion of a size_t value to int (modular; `int n = arr.size()`)
Narrow(x) == ((x + 2 ^ (IntBits - 1)) % (2 ^ IntBits)) - 2 ^ (IntBits - 1)

\* x / 2 of the code: integer division truncating toward zero
Div2(x) == IF x >= 0 THEN x \div 2 ELSE -((-x) \div 2)

\* --------------------------------------------------------------- vectors
Vals == 0 .. MaxVal
Targets == -1 .. (MaxVal + 1)

\* std::vector<int>::size()
Size(v) == Cardinality(DOMAIN v)

\* operator[] is defined only inside the vector
InBounds(v, k) == 0 <= k /\ k <= Size(v) - 1

VectorsOfSize(n) == [0 .. (n - 1) -> Vals]
Vectors == UNION {VectorsOfSize(n) : n \in 0 .. MaxLen}

\* vectors as long as an int can index (and one longer), of the shape 0..0 1..1
TwoBlock(n, k) == [x \in 0 .. (n - 1) |-> IF x < k THEN 0 ELSE 1]
LongVectors == {TwoBlock(n, k) : n \in 0 .. (INT_MAX + 1), k \in 0 .. (INT_MAX + 1)}

\* the scripts of calls a caller runs on its vector
SortScript == <<"bubbleSort", "sortArray", "bubbleSort", "sortArray">>
Scripts == {SortScript, <<"binarySearch">>, <<"findElement">>}

VARIABLES
  S,            \* the caller's vector, as it was before any call
  script,       \* the calls the caller makes, in order
  step,         \* index in script of the next call
  active,       \* the function that is executing, or "none"
  bubbleSort,   \* frame of bubbleSort: arr (by reference), n, i, j
  sortArray,    \* frame of sortArray: data (by reference), len, i, j, swapped
  binarySearch, \* frame of binarySearch: target, left, right, mid, ret
  findElement   \* frame of findElement: key, low, high, mid, ret

vars == <<S, script, step, active, bubbleSort, sortArray, binarySearch, findElement>>

\* Frame fields beyond the code's locals are history only, never read by the
\* code: runs (completed calls), first (the vector after the first call),
\* cmps / swaps (comparisons / exchanges of this call), passSwaps (exchanges of
\* the current inner pass), clean (cmps when a pass without exchange ended,
\* else -1), probes (elements read by this search).
BubbleSortFrame(v) ==
  [pc |-> "idle", arr |-> v, n |-> 0, i |-> 0, j |-> 0,
   runs |-> 0, first |-> v, cmps |-> 0, swaps |-> 0, passSwaps |-> 0, clean |-> -1]

SortArrayFrame(v) ==
  [pc |-> "idle", data |-> v, len |-> 0, i |-> 0, j |-> 0, swapped |-> FALSE,
   runs |-> 0, first |-> v, cmps |-> 0, swaps |-> 0, passSwaps |-> 0, clean |-> -1]

BinarySearchFrame ==
  [pc |-> "idle", target |-> 0, left |-> 0, right |-> 0, mid |-> 0, ret |-> 0,
   runs |-> 0, probes |-> 0]

FindElementFrame ==
  [pc |-> "idle", key |-> 0, low |-> 0, high |-> 0, mid |-> 0, ret |-> 0,
   runs |-> 0, probes |-> 0]

InitWith(v, sc) ==
  /\ S = v
  /\ script = sc
  /\ step = 1
  /\ active = "none"
  /\ bubbleSort = BubbleSortFrame(v)
  /\ sortArray = SortArrayFrame(v)
  /\ binarySearch = BinarySearchFrame
  /\ findElement = FindElementFrame

Init == \E v \in Vectors : \E sc \in Scripts : InitWith(v, sc)

\* the same, and the searches on vectors whose last index is up to INT_MAX
InitLong ==
  \/ Init
  \/ \E v \in LongVectors : \E sc \in {<<"binarySearch">>, <<"findElement">>} : InitWith(v, sc)

\* the caller is about to call f
Calling(f) == active = "none" /\ step <= Len(script) /\ script[step] = f

\* ------------------------------------------------------------ bubbleSort
\* std::swap(arr[j], arr[j + 1])
Swap(v, j) == [v EXCEPT ![j] = v[j + 1], ![j + 1] = v[j]]

\* line 8: arr[j] > arr[j + 1]
OutOfOrder(x, y) == x > y

\* lines 4-6: entry, `int n = arr.size()`, `int i = 0`
CallBubbleSort ==
  /\ Calling("bubbleSort")
  /\ active' = "bubbleSort"
  /\ bubbleSort' = [bubbleSort EXCEPT !.pc = "outer",
                                      !.n = Narrow(Size(bubbleSort.arr)), !.i = 0,
                                      !.cmps = 0, !.swaps = 0, !.passSwaps = 0, !.clean = -1]
  /\ UNCHANGED <<S, script, step, sortArray, binarySearch, findElement>>

\* bubbleSort with its last pass left out
OnePassShort(n) == n - 2

\* line 6: the test `i < n - 1`; line 7: `int j = 0`; line 13: return
BubbleOuterBound(n) == n - 1

BubbleOuter ==
  /\ active = "bubbleSort" /\ bubbleSort.pc = "outer"
  /\ IF ~InInt(BubbleOuterBound(bubbleSort.n))
       THEN /\ bubbleSort' = [bubbleSort EXCEPT !.pc = "undefined"]
            /\ UNCHANGED <<active, step>>
       ELSE IF bubbleSort.i < BubbleOuterBound(bubbleSort.n)
         THEN /\ bubbleSort' = [bubbleSort EXCEPT !.pc = "inner", !.j = 0, !.passSwaps = 0]
              /\ UNCHANGED <<active, step>>
         ELSE /\ bubbleSort' = [bubbleSort EXCEPT
                   !.pc = "idle", !.runs = @ + 1,
                   !.first = IF bubbleSort.runs = 0 THEN bubbleSort.arr ELSE @]
              /\ active' = "none"
              /\ step' = step + 1
  /\ UNCHANGED <<S, script, sortArray, binarySearch, findElement>>

\* bubbleSort never comparing the last pair of a pass
LastPairSkipped(n, i) == n - i - 2

\* line 7: the test `j < n - i - 1`; line 6: `i++` when the pass is over
BubbleInnerBound(n, i) == n - i - 1

BubbleInner ==
  /\ active = "bubbleSort" /\ bubbleSort.pc = "inner"
  /\ IF ~InInt(bubbleSort.n - bubbleSort.i)
        \/ ~InInt(BubbleInnerBound(bubbleSort.n, bubbleSort.i))
       THEN bubbleSort' = [bubbleSort EXCEPT !.pc = "undefined"]
       ELSE IF bubbleSort.j < BubbleInnerBound(bubbleSort.n, bubbleSort.i)
         THEN bubbleSort' = [bubbleSort EXCEPT !.pc = "cmp"]
         ELSE IF ~InInt(bubbleSort.i + 1)
           THEN bubbleSort' = [bubbleSort EXCEPT !.pc = "undefined"]
           ELSE bubbleSort' = [bubbleSort EXCEPT
                  !.pc = "outer", !.i = @ + 1,
                  !.clean = IF bubbleSort.passSwaps = 0 /\ @ = -1 THEN bubbleSort.cmps ELSE @]
  /\ UNCHANGED <<S, script, step, active, sortArray, binarySearch, findElement>>

\* lines 8-10: compare arr[j] and arr[j + 1], exchange them; line 7: `j++`
BubbleCmp ==
  /\ active = "bubbleSort" /\ bubbleSort.pc = "cmp"
  /\ LET arr == bubbleSort.arr
         j == bubbleSort.j
     IN IF ~InInt(j + 1) \/ ~InBounds(arr, j) \/ ~InBounds(arr, j + 1)
          THEN bubbleSort' = [bubbleSort EXCEPT !.pc = "undefined"]
          ELSE IF OutOfOrder(arr[j], arr[j + 1])
            THEN bubbleSort' = [bubbleSort EXCEPT
                   !.pc = "inner", !.arr = Swap(arr, j), !.j = @ + 1,
                   !.cmps = @ + 1, !.swaps = @ + 1, !.passSwaps = @ + 1]
            ELSE bubbleSort' = [bubbleSort EXCEPT
                   !.pc = "inner", !.j = @ + 1, !.cmps = @ + 1]
  /\ UNCHANGED <<S, script, step, active, sortArray, binarySearch, findElement>>

\* ------------------------------------------------------------- sortArray
\* the exchange without temp: data[j] = data[j + 1]; data[j + 1] = data[j]
ExchangeNoTemp(v, j) ==
  LET v1 == [v EXCEPT ![j] = v[j + 1]]
  IN [v1 EXCEPT ![j + 1] = v1[j]]

\* lines 14-16: temp = data[j]; data[j] = data[j + 1]; data[j + 1] = temp
Exchange(v, j) ==
  LET temp == v[j]
      v1 == [v EXCEPT ![j] = v[j + 1]]
  IN [v1 EXCEPT ![j + 1] = temp]

\* line 13: data[j] > data[j + 1]
Greater(x, y) == x > y

\* lines 6-10: entry, `int len = data.size()`, `int i = 0`
CallSortArray ==
  /\ Calling("sortArray")
  /\ active' = "sortArray"
  /\ sortArray' = [sortArray EXCEPT !.pc = "outer",
                                    !.len = Narrow(Size(sortArray.data)), !.i = 0,
                                    !.cmps = 0, !.swaps = 0, !.passSwaps = 0, !.clean = -1]
  /\ UNCHANGED <<S, script, step, bubbleSort, binarySearch, findElement>>

\* the function returns (line 23)
SortArrayReturn ==
  /\ sortArray' = [sortArray EXCEPT
       !.pc = "idle", !.runs = @ + 1,
       !.first = IF sortArray.runs = 0 THEN sortArray.data ELSE @]
  /\ active' = "none"
  /\ step' = step + 1

\* line 10: the test `i < len - 1`; lines 11-12: `swapped = false`, `int j = 0`
SortArrayOuterBound(len) == len - 1

SortArrayOuter ==
  /\ active = "sortArray" /\ sortArray.pc = "outer"
  /\ IF ~InInt(SortArrayOuterBound(sortArray.len))
       THEN /\ sortArray' = [sortArray EXCEPT !.pc = "undefined"]
            /\ UNCHANGED <<active, step>>
       ELSE IF sortArray.i < SortArrayOuterBound(sortArray.len)
         THEN /\ sortArray' = [sortArray EXCEPT
                   !.pc = "inner", !.swapped = FALSE, !.j = 0, !.passSwaps = 0]
              /\ UNCHANGED <<active, step>>
         ELSE SortArrayReturn
  /\ UNCHANGED <<S, script, bubbleSort, binarySearch, findElement>>

\* sortArray running each pass one pair too far
OnePairTooFar(len, i) == len - i

\* line 12: the test `j < len - i - 1`
SortArrayInnerBound(len, i) == len - i - 1

SortArrayInner ==
  /\ active = "sortArray" /\ sortArray.pc = "inner"
  /\ IF ~InInt(sortArray.len - sortArray.i)
        \/ ~InInt(SortArrayInnerBound(sortArray.len, sortArray.i))
       THEN sortArray' = [sortArray EXCEPT !.pc = "undefined"]
       ELSE IF sortArray.j < SortArrayInnerBound(sortArray.len, sortArray.i)
         THEN sortArray' = [sortArray EXCEPT !.pc = "cmp"]
         ELSE sortArray' = [sortArray EXCEPT
                !.pc = "check",
                !.clean = IF sortArray.passSwaps = 0 /\ @ = -1 THEN sortArray.cmps ELSE @]
  /\ UNCHANGED <<S, script, step, active, bubbleSort, binarySearch, findElement>>

\* lines 13-18: compare data[j] and data[j + 1], exchange them; line 12: `j++`
SortArrayCmp ==
  /\ active = "sortArray" /\ sortArray.pc = "cmp"
  /\ LET data == sortArray.data
         j == sortArray.j
     IN IF ~InInt(j + 1) \/ ~InBounds(data, j) \/ ~InBounds(data, j + 1)
          THEN sortArray' = [sortArray EXCEPT !.pc = "undefined"]
          ELSE IF Greater(data[j], data[j + 1])
            THEN sortArray' = [sortArray EXCEPT
                   !.pc = "inner", !.data = Exchange(data, j), !.swapped = TRUE, !.j = @ + 1,
                   !.cmps = @ + 1, !.swaps = @ + 1, !.passSwaps = @ + 1]
            ELSE sortArray' = [sortArray EXCEPT
                   !.pc = "inner", !.j = @ + 1, !.cmps = @ + 1]
  /\ UNCHANGED <<S, script, step, active, bubbleSort, binarySearch, findElement>>

\* sortArray without its early exit
BreakNever(swapped) == FALSE

\* sortArray leaving its loop after a pass that did exchange
BreakWhenSwapped(swapped) == swapped

\* lines 20-21: `if (!swapped) break;`
BreakNow(swapped) == ~swapped

\* lines 20-21, and line 10: `i++` when the loop goes on
SortArrayCheck ==
  /\ active = "sortArray" /\ sortArray.pc = "check"
  /\ IF BreakNow(sortArray.swapped)
       THEN SortArrayReturn
       ELSE IF ~InInt(sortArray.i + 1)
         THEN /\ sortArray' = [sortArray EXCEPT !.pc = "undefined"]
              /\ UNCHANGED <<active, step>>
         ELSE /\ sortArray' = [sortArray EXCEPT !.pc = "outer", !.i = @ + 1]
              /\ UNCHANGED <<active, step>>
  /\ UNCHANGED <<S, script, bubbleSort, binarySearch, findElement>>

\* ---------------------------------------------------------- binarySearch
\* line 19: left + (right - left) / 2
Midpoint(lo, hi) == lo + Div2(hi - lo)

\* binarySearch stepping over the element after mid
SkipOne(mid) == mid + 2

\* line 23: left = mid + 1
AfterMid(mid) == mid + 1

\* line 25: right = mid - 1
BeforeMid(mid) == mid - 1

\* binarySearch starting with right = arr.size()
OnePastLast(v) == Narrow(Size(v))

\* line 17: arr.size() - 1, computed in size_t and converted to int
LastIndex(v) == Narrow(Size(v) - 1)

\* lines 15-17: entry, `int left = 0`, `int right = arr.size() - 1`
CallBinarySearch ==
  /\ Calling("binarySearch")
  /\ \E t \in Targets :
       binarySearch' = [binarySearch EXCEPT
         !.pc = "test", !.target = t, !.left = 0, !.right = LastIndex(S),
         !.probes = 0]
  /\ active' = "binarySearch"
  /\ UNCHANGED <<S, script, step, bubbleSort, sortArray, findElement>>

\* line 18: the test `left <= right`; line 19: mid; line 27: `return -1`
BinaryTest ==
  /\ active = "binarySearch" /\ binarySearch.pc = "test"
  /\ LET left == binarySearch.left
         right == binarySearch.right
     IN IF left <= right
          THEN /\ IF ~InInt(right - left) \/ ~InInt(Midpoint(left, right))
                    THEN binarySearch' = [binarySearch EXCEPT !.pc = "undefined"]
                    ELSE binarySearch' = [binarySearch EXCEPT
                           !.pc = "probe", !.mid = Midpoint(left, right)]
               /\ UNCHANGED <<active, step>>
          ELSE /\ binarySearch' = [binarySearch EXCEPT
                    !.pc = "idle", !.ret = -1, !.runs = @ + 1]
               /\ active' = "none"
               /\ step' = step + 1
  /\ UNCHANGED <<S, script, bubbleSort, sortArray, findElement>>

\* lines 20-25: read arr[mid]; return mid, or move left or right past mid
BinaryProbe ==
  /\ active = "binarySearch" /\ binarySearch.pc = "probe"
  /\ LET mid == binarySearch.mid
         target == binarySearch.target
     IN IF ~InBounds(S, mid)
          THEN /\ binarySearch' = [binarySearch EXCEPT !.pc = "undefined"]
               /\ UNCHANGED <<active, step>>
          ELSE IF S[mid] = target
            THEN /\ binarySearch' = [binarySearch EXCEPT
                      !.pc = "idle", !.ret = mid, !.runs = @ + 1, !.probes = @ + 1]
                 /\ active' = "none"
                 /\ step' = step + 1
            ELSE IF S[mid] < target
              THEN /\ IF InInt(AfterMid(mid))
                        THEN binarySearch' = [binarySearch EXCEPT
                               !.pc = "test", !.left = AfterMid(mid), !.probes = @ + 1]
                        ELSE \E v \in IntRange :
                               binarySearch' = [binarySearch EXCEPT
                                 !.pc = "undefined", !.left = v, !.probes = @ + 1]
                   /\ UNCHANGED <<active, step>>
              ELSE /\ IF InInt(BeforeMid(mid))
                        THEN binarySearch' = [binarySearch EXCEPT
                               !.pc = "test", !.right = BeforeMid(mid), !.probes = @ + 1]
                        ELSE \E v \in IntRange :
                               binarySearch' = [binarySearch EXCEPT
                                 !.pc = "undefined", !.right = v, !.probes = @ + 1]
                   /\ UNCHANGED <<active, step>>
  /\ UNCHANGED <<S, script, bubbleSort, sortArray, findElement>>

\* ----------------------------------------------------------- findElement
\* line 30: low + (high - low) / 2
MidOf(low, high) == low + Div2(high - low)

\* findElement keeping mid in the range: low = mid
StayAtMid(mid) == mid

\* line 34: low = mid + 1
Above(mid) == mid + 1

\* line 36: high = mid - 1
Below(mid) == mid - 1

\* line 28: list.size() - 1, computed in size_t and converted to int
HighIndex(v) == Narrow(Size(v) - 1)

\* lines 25-28: entry, `int low = 0`, `int high = list.size() - 1`
CallFindElement ==
  /\ Calling("findElement")
  /\ \E k \in Targets :
       findElement' = [findElement EXCEPT
         !.pc = "test", !.key = k, !.low = 0, !.high = HighIndex(S),
         !.probes = 0]
  /\ active' = "findElement"
  /\ UNCHANGED <<S, script, step, bubbleSort, sortArray, binarySearch>>

\* line 29: the test `low <= high`; line 30: mid; line 38: `return -1`
FindTest ==
  /\ active = "findElement" /\ findElement.pc = "test"
  /\ LET low == findElement.low
         high == findElement.high
     IN IF low <= high
          THEN /\ IF ~InInt(high - low) \/ ~InInt(MidOf(low, high))
                    THEN findElement' = [findElement EXCEPT !.pc = "undefined"]
                    ELSE findElement' = [findElement EXCEPT
                           !.pc = "probe", !.mid = MidOf(low, high)]
               /\ UNCHANGED <<active, step>>
          ELSE /\ findElement' = [findElement EXCEPT
                    !.pc = "idle", !.ret = -1, !.runs = @ + 1]
               /\ active' = "none"
               /\ step' = step + 1
  /\ UNCHANGED <<S, script, bubbleSort, sortArray, binarySearch>>

\* lines 31-36: read list[mid]; return mid, or move low or high past mid
FindProbe ==
  /\ active = "findElement" /\ findElement.pc = "probe"
  /\ LET mid == findElement.mid
         key == findElement.key
     IN IF ~InBounds(S, mid)
          THEN /\ findElement' = [findElement EXCEPT !.pc = "undefined"]
               /\ UNCHANGED <<active, step>>
          ELSE IF S[mid] = key
            THEN /\ findElement' = [findElement EXCEPT
                      !.pc = "idle", !.ret = mid, !.runs = @ + 1, !.probes = @ + 1]
                 /\ active' = "none"
                 /\ step' = step + 1
            ELSE IF S[mid] < key
              THEN /\ IF InInt(Above(mid))
                        THEN findElement' = [findElement EXCEPT
                               !.pc = "test", !.low = Above(mid), !.probes = @ + 1]
                        ELSE \E v \in IntRange :
                               findElement' = [findElement EXCEPT
                                 !.pc = "undefined", !.low = v, !.probes = @ + 1]
                   /\ UNCHANGED <<active, step>>
              ELSE /\ IF InInt(Below(mid))
                        THEN findElement' = [findElement EXCEPT
                               !.pc = "test", !.high = Below(mid), !.probes = @ + 1]
                        ELSE \E v \in IntRange :
                               findElement' = [findElement EXCEPT
                                 !.pc = "undefined", !.high = v, !.probes = @ + 1]
                   /\ UNCHANGED <<active, step>>
  /\ UNCHANGED <<S, script, bubbleSort, sortArray, binarySearch>>

\* ---------------------------------------------------------- the program
Next ==
  \/ CallBubbleSort \/ BubbleOuter \/ BubbleInner \/ BubbleCmp
  \/ CallSortArray \/ SortArrayOuter \/ SortArrayInner \/ SortArrayCmp \/ SortArrayCheck
  \/ CallBinarySearch \/ BinaryTest \/ BinaryProbe
  \/ CallFindElement \/ FindTest \/ FindProbe

Spec == Init /\ [][Next]_vars

\* the searches also on vectors whose last index reaches INT_MAX
SpecLong == InitLong /\ [][Next]_vars

\* a function that is executing takes its next step: the caller is single
\* threaded and a call runs until it returns
SpecFair == Init /\ [][Next]_vars /\ WF_vars(Next)
\* =============================================================== claims
\* v is in ascending order
Sorted(v) == \A k \in DOMAIN v : (k + 1) \in DOMAIN v => v[k] <= v[k + 1]

\* occurrences of x in v
Count(v, x) == Cardinality({k \in DOMAIN v : v[k] = x})

\* a and b have the same length and the same multiset of elements
SameElements(a, b) ==
  /\ DOMAIN a = DOMAIN b
  /\ \A x \in Vals : Count(a, x) = Count(b, x)

\* b is a with two adjacent elements exchanged
AdjacentExchange(a, b) ==
  \E k \in DOMAIN a :
    /\ (k + 1) \in DOMAIN a
    /\ b = [a EXCEPT ![k] = a[k + 1], ![k + 1] = a[k]]

\* x occurs in v
Occurs(v, x) == \E k \in DOMAIN v : v[k] = x

\* the frame's function has been called and has returned
Returned(f) == f.pc = "idle" /\ f.runs > 0

\* the caller's script is over
ScriptDone == active = "none" /\ step > Len(script)

\* C1: whenever bubbleSort or sortArray has returned, every adjacent pair of
\* its vector is in order: v[k] <= v[k + 1] for all 0 <= k < size - 1 (the
\* empty and the one-element vector included).
C1_SortedOnReturn ==
  /\ Returned(bubbleSort) => Sorted(bubbleSort.arr)
  /\ Returned(sortArray) => Sorted(sortArray.data)

\* both sorts have returned from a vector of at least three elements that was
\* not in order
C1_Witness ==
  /\ Returned(bubbleSort) /\ Returned(sortArray)
  /\ Size(S) >= 3 /\ ~Sorted(S)
  /\ bubbleSort.swaps > 1

\* C2: in every state during and after a sort the vector has the length and
\* the multiset of elements it had on entry, and every step leaves the vector
\* as it is or exchanges two adjacent elements.
C2_PermutationPreserved ==
  /\ [](SameElements(bubbleSort.arr, S) /\ SameElements(sortArray.data, S))
  /\ [][/\ (bubbleSort'.arr = bubbleSort.arr
              \/ AdjacentExchange(bubbleSort.arr, bubbleSort'.arr))
        /\ (sortArray'.data = sortArray.data
              \/ AdjacentExchange(sortArray.data, sortArray'.data))]_vars

\* sortArray is in the middle of a pass and has exchanged at least twice
C2_Witness ==
  /\ active = "sortArray" /\ sortArray.pc = "inner"
  /\ sortArray.swaps >= 2
  /\ sortArray.data # S
  /\ bubbleSort.arr # S

\* C3: on a vector in ascending order (duplicates allowed), a search for a
\* value that occurs in it returns an index r with 0 <= r < size whose
\* element is that value, never -1.
C3_FoundWhenPresent ==
  /\ (Returned(binarySearch) /\ Sorted(S) /\ Occurs(S, binarySearch.target))
       => /\ InBounds(S, binarySearch.ret)
          /\ S[binarySearch.ret] = binarySearch.target
  /\ (Returned(findElement) /\ Sorted(S) /\ Occurs(S, findElement.key))
       => /\ InBounds(S, findElement.ret)
          /\ S[findElement.ret] = findElement.key

\* a search has found a value that occurs twice, after more than one probe
C3_Witness ==
  /\ Returned(binarySearch) /\ Sorted(S) /\ Size(S) >= 3
  /\ Count(S, binarySearch.target) >= 2
  /\ binarySearch.probes >= 2
  /\ binarySearch.ret >= 0

\* C4: on a vector in ascending order, a search for a value that occurs
\* nowhere in it returns -1; on the empty vector no element is ever read and
\* -1 is returned for every target.
C4_AbsentGivesSentinel ==
  /\ (Returned(binarySearch) /\ Sorted(S) /\ ~Occurs(S, binarySearch.target))
       => binarySearch.ret = -1
  /\ (Returned(findElement) /\ Sorted(S) /\ ~Occurs(S, findElement.key))
       => findElement.ret = -1
  /\ Size(S) = 0
       => /\ binarySearch.pc \in {"idle", "test"} /\ binarySearch.probes = 0
          /\ binarySearch.pc = "test" => binarySearch.left > binarySearch.right
          /\ Returned(binarySearch) => binarySearch.ret = -1
          /\ findElement.pc \in {"idle", "test"} /\ findElement.probes = 0
          /\ findElement.pc = "test" => findElement.low > findElement.high
          /\ Returned(findElement) => findElement.ret = -1

\* a search has returned -1 for a value lying between the elements of a
\* vector in order
C4_Witness ==
  /\ Returned(findElement) /\ Sorted(S) /\ Size(S) >= 3
  /\ ~Occurs(S, findElement.key)
  /\ S[0] < findElement.key /\ findElement.key < S[Size(S) - 1]
  /\ findElement.ret = -1

\* the vector a frame's current (or last) call was given
InputOf(f) == IF f.runs = 0 \/ (f.runs = 1 /\ f.pc = "idle") THEN S ELSE f.first

\* once a pass without exchange has ended, no comparison follows; so a call
\* on a vector in order, of n >= 2 elements, returns after n - 1 comparisons
EarlyExit(f, v) ==
  /\ f.clean # -1 => f.cmps = f.clean
  /\ (Returned(f) /\ Sorted(InputOf(f)) /\ Size(v) >= 2) => f.cmps = Size(v) - 1

\* C5 as stated: bubbleSort and sortArray both stop at the first pass
\* without exchange.
C5_EarlyExitBoth ==
  /\ EarlyExit(bubbleSort, bubbleSort.arr)
  /\ EarlyExit(sortArray, sortArray.data)

\* C5 as amended: sortArray stops at the first pass without exchange, so a
\* vector in order of n >= 2 elements costs it n - 1 comparisons; bubbleSort
\* has no early exit and returns after n (n - 1) / 2 comparisons whatever the
\* vector (0 for n <= 1).
C5_EarlyExitSortArrayOnly ==
  /\ EarlyExit(sortArray, sortArray.data)
  /\ Returned(bubbleSort)
       => bubbleSort.cmps * 2 = Size(bubbleSort.arr) * (Size(bubbleSort.arr) - 1)

\* both sorts have returned from the same vector in order, of at least three
\* elements: sortArray after n - 1 comparisons, bubbleSort after more
C5_Witness ==
  /\ Returned(bubbleSort) /\ Returned(sortArray)
  /\ sortArray.runs = 1 /\ Sorted(S) /\ Size(S) >= 3
  /\ sortArray.cmps = Size(S) - 1
  /\ bubbleSort.cmps > sortArray.cmps

\* C6: bubbleSort and sortArray, called on equal copies of a vector, leave
\* equal vectors.
C6_SameResult ==
  (bubbleSort.runs >= 1 /\ sortArray.runs >= 1)
    => /\ bubbleSort.first = sortArray.first
       /\ (Returned(bubbleSort) /\ Returned(sortArray)) => bubbleSort.arr = sortArray.data

\* both have returned from a vector not in order, sortArray having left its
\* loop early
C6_Witness ==
  /\ bubbleSort.runs = 1 /\ sortArray.runs = 1 /\ Returned(sortArray)
  /\ ~Sorted(S) /\ Size(S) >= 3
  /\ sortArray.cmps < bubbleSort.cmps
  /\ sortArray.data # S

\* the second call of a sort, on the vector its first call left
SecondRun(f, v) ==
  /\ (f.runs = 1 /\ f.pc # "idle") => (v = f.first /\ f.swaps = 0)
  /\ f.runs = 2 => (v = f.first /\ f.swaps = 0)

\* C7: a second call of a sort on the result of its first call exchanges
\* nothing and leaves the vector identical to that result.
C7_Idempotent ==
  /\ SecondRun(bubbleSort, bubbleSort.arr)
  /\ SecondRun(sortArray, sortArray.data)

\* both sorts have returned twice from a vector that was not in order
C7_Witness ==
  /\ bubbleSort.runs = 2 /\ sortArray.runs = 2
  /\ ~Sorted(S) /\ Size(S) >= 3
  /\ bubbleSort.cmps > 0

\* the index arithmetic of one iteration from lo, hi: mid is the midpoint the
\* code computes, up and down the values it assigns to low and to high
IndexStepInRange(lo, hi, mid, up, down) ==
  /\ 0 <= hi - lo /\ hi - lo <= INT_MAX
  /\ 0 <= Div2(hi - lo) /\ Div2(hi - lo) <= INT_MAX
  /\ 0 <= mid /\ mid <= INT_MAX
  /\ lo <= mid /\ mid <= hi
  /\ InInt(up)
  /\ InInt(down)

\* C8 as stated: whenever a search tests 0 <= low <= high <= INT_MAX, every
\* intermediate value of low + (high - low) / 2 is in 0..INT_MAX, the
\* midpoint lies between low and high, and mid + 1 and mid - 1 are
\* representable, so no step of a search overflows; and low + high is not
\* representable for some such pair.
C8_IndexArithmeticInRange ==
  /\ (binarySearch.pc = "test" /\ 0 <= binarySearch.left
        /\ binarySearch.left <= binarySearch.right /\ binarySearch.right <= INT_MAX)
       => LET mid == Midpoint(binarySearch.left, binarySearch.right)
          IN IndexStepInRange(binarySearch.left, binarySearch.right, mid,
                              AfterMid(mid), BeforeMid(mid))
  /\ (findElement.pc = "test" /\ 0 <= findElement.low
        /\ findElement.low <= findElement.high /\ findElement.high <= INT_MAX)
       => LET mid == MidOf(findElement.low, findElement.high)
          IN IndexStepInRange(findElement.low, findElement.high, mid,
                              Above(mid), Below(mid))
  /\ binarySearch.pc # "undefined" /\ findElement.pc # "undefined"
  /\ \E lo \in 0 .. INT_MAX : \E hi \in lo .. INT_MAX : ~InInt(lo + hi)

\* C9: every call returns, so the caller's script ends; an iteration of a
\* search that does not return makes high - low smaller; in a sort j goes up
\* by one to at most n - i - 1 in every comparison and i by one to at most
\* n - 1 after every pass, n being fixed.
C9_Total ==
  /\ <>ScriptDone
  /\ [][/\ (binarySearch.pc = "probe" /\ binarySearch'.pc = "test")
             => binarySearch'.right - binarySearch'.left
                  < binarySearch.right - binarySearch.left
        /\ (findElement.pc = "probe" /\ findElement'.pc = "test")
             => findElement'.high - findElement'.low < findElement.high - findElement.low
        /\ (bubbleSort.pc = "cmp" /\ active = "bubbleSort")
             => /\ bubbleSort'.j = bubbleSort.j + 1
                /\ bubbleSort'.j <= bubbleSort.n - bubbleSort.i - 1
                /\ bubbleSort'.i = bubbleSort.i /\ bubbleSort'.n = bubbleSort.n
        /\ (bubbleSort.pc = "inner" /\ bubbleSort'.pc = "outer")
             => /\ bubbleSort'.i = bubbleSort.i + 1
                /\ bubbleSort'.i <= bubbleSort.n - 1
                /\ bubbleSort'.n = bubbleSort.n
        /\ (sortArray.pc = "cmp" /\ active = "sortArray")
             => /\ sortArray'.j = sortArray.j + 1
                /\ sortArray'.j <= sortArray.len - sortArray.i - 1
                /\ sortArray'.i = sortArray.i /\ sortArray'.len = sortArray.len
        /\ (sortArray.pc = "check" /\ sortArray'.pc = "outer")
             => /\ sortArray'.i = sortArray.i + 1
                /\ sortArray'.i <= sortArray.len - 1
                /\ sortArray'.len = sortArray.len]_vars

\* a search of a vector that is not in order has returned after three probes
C9_Witness ==
  /\ ScriptDone /\ Returned(binarySearch)
  /\ ~Sorted(S) /\ binarySearch.probes >= 3

\* C10: whenever a sort reads or writes v[j] and v[j + 1], 0 <= j and
\* j + 1 <= size - 1; whenever a search reads v[mid], on a vector in order or
\* not, 0 <= low <= mid <= high <= size - 1; no call leaves defined behaviour.
C10_AccessInBounds ==
  /\ bubbleSort.pc = "cmp"
       => 0 <= bubbleSort.j /\ bubbleSort.j + 1 <= Size(bubbleSort.arr) - 1
  /\ sortArray.pc = "cmp"
       => 0 <= sortArray.j /\ sortArray.j + 1 <= Size(sortArray.data) - 1
  /\ binarySearch.pc = "probe"
       => /\ 0 <= binarySearch.left /\ binarySearch.left <= binarySearch.mid
          /\ binarySearch.mid <= binarySearch.right
          /\ binarySearch.right <= Size(S) - 1
  /\ findElement.pc = "probe"
       => /\ 0 <= findElement.low /\ findElement.low <= findElement.mid
          /\ findElement.mid <= findElement.high
          /\ findElement.high <= Size(S) - 1
  /\ bubbleSort.pc # "undefined" /\ sortArray.pc # "undefined"
  /\ binarySearch.pc # "undefined" /\ findElement.pc # "undefined"

\* sortArray is about to compare the last pair of the longest vector
C10_Witness ==
  /\ sortArray.pc = "cmp" /\ Size(sortArray.data) = MaxLen
  /\ sortArray.j + 1 = Size(sortArray.data) - 1
  /\ ~Sorted(S)
====
